---- MODULE Spec2Model ----
(***************************************************************************)
(* Deal discovery pipeline of uber-cheats: one discovery request           *)
(* (backend/main.py find_deals driving UberEatsDeals.get_restaurant_deals) *)
(* against the shared sqlite table deals, with the store-visible steps of  *)
(* other writers (save_deal_to_db calls of other runs).                    *)
(*                                                                         *)
(* Python values are tagged records [t, v]; a dict is a function from its  *)
(* keys to such values, so an absent key is a key outside its DOMAIN.      *)
(* Prices are counted in cents. URLs are sequences of tokens so that       *)
(* "'?' in link" and the appended suffix are computed, not assumed.        *)
(*                                                                         *)
(* Specifications: Spec, the discovery request; SpecLive, the same with    *)
(* the readings of the scroll loop taken; SpecSave, save_deal_to_db        *)
(* statement by statement on the event loop; SpecUnwrap, SpecSegment and   *)
(* SpecJanitor, the unwrapping of a model response, the segmenter and      *)
(* cleanup_stale_deals on bounded sets of inputs; SpecSocket, the registry *)
(* of notification connections under connects and disconnects.             *)
(***************************************************************************)
EXTENDS Integers, Sequences, FiniteSets, TLC

VARIABLES
    store,      \* table deals, rows in rowid order
    clock,      \* CURRENT_TIMESTAMP of the database, in seconds
    pc,         \* position of the discovery request
    url,        \* input_data.url of the request
    deals,      \* self.deals of the request's UberEatsDeals instance
    driver,     \* self.driver: "none", "up" or "quit"
    total,      \* total_deals_found of find_deals
    result,     \* what the caller of find_deals observes
    cache,      \* what the lookup of the request gave: "hit", "miss", "error"
    loadError,  \* the step of the listing load that failed, "none" otherwise
    cards,      \* one record per process_store_card task
    legacy,     \* rows of a deals table created before the url_hash column
    height,     \* document.body.scrollHeight of the listing page
    last_height, \* last_height of the scroll loop
    progress,   \* the (message, progress) pair of the last send_progress_update
    reply,      \* a model response handed to the unwrapping of process_menu_item
    parsed,     \* what json.loads was given, and what it gave
    page,       \* a detail page handed to the segmenter
    fragments,  \* the fragments the segmenter made of it
    cleanup_time, \* datetime.now() of a cleanup_stale_deals call
    coros,      \* coroutines of the event loop that save deals
    locks,      \* db_lock of each UberEatsDeals instance
    running,    \* the coroutine the event loop is running, 0 between two
    active_connections, \* active_connections of backend/main.py
    websockets  \* the notification connections clients have opened

\* the variables of the discovery request
run == <<store, clock, pc, url, deals, driver, total, result, cache, loadError, cards,
         legacy, height, last_height, progress>>

\* the variables of the function-level specifications
aux == <<reply, parsed, page, fragments, cleanup_time, coros, locks, running,
         active_connections, websockets>>

vars == <<run, aux>>

(* ------------------------------ bounds --------------------------------- *)

MaxClock == 1

\* the scroll heights a listing page may have
MaxHeight == 3

\* the longest model response, in tokens, the unwrapping is checked on
MaxReplyLen == 4

\* the deepest nesting of a promo tag inside its menu item, and the most promo
\* tags of a page, the segmenter is checked on
MaxWrappers == 9
MaxMarkers == 2

\* the instants, ten minutes apart from 23:00 of the first day on, at which
\* rows are written and the cleanup runs
MaxInstants == 11

\* the largest count of saved deals the progress fraction is computed for
MaxDeals == 24

(* --------------------------- python values ----------------------------- *)

Str(s) == [t |-> "str", v |-> s]
Num(n) == [t |-> "num", v |-> n]
Url(u) == [t |-> "url", v |-> u]
None == [t |-> "none", v |-> ""]

\* dict.get(key, default)
Get(d, k, default) == IF k \in DOMAIN d THEN d[k] ELSE default

\* a.update(b): every key of b overrides the key of a
Update(a, b) ==
    [k \in DOMAIN a \cup DOMAIN b |-> IF k \in DOMAIN b THEN b[k] ELSE a[k]]

\* d[key] = value
SetItem(d, k, val) ==
    [x \in DOMAIN d \cup {k} |-> IF x = k THEN val ELSE d[x]]

\* the strings float() accepts, with their value in cents
NumericStrings == [s \in {"9.99", "7.50"} |-> IF s = "9.99" THEN 999 ELSE 750]

\* float(value): ValueError on a non-numeric string, TypeError on None
Float(val) ==
    CASE val.t = "num" -> [ok |-> TRUE, n |-> val.v]
      [] val.t = "str" /\ val.v \in DOMAIN NumericStrings
                       -> [ok |-> TRUE, n |-> NumericStrings[val.v]]
      [] OTHER -> [ok |-> FALSE, n |-> 0]

(* ------------------------------- urls ---------------------------------- *)

ListingUrl == <<"ubereats.com/offers">>
HrefRoma == <<"ubereats.com/store/roma">>
HrefThai == <<"ubereats.com/store/thai", "?", "diningMode=DELIVERY">>
NoHref == <<>>

\* '?' in link
HasQuery(link) == \E i \in DOMAIN link : link[i] = "?"

\* the link of a card with the quick-view parameter appended
QuickView(link) ==
    IF HasQuery(link) THEN link \o <<"&", "mod=quickView">>
                      ELSE link \o <<"?", "mod=quickView">>

\* sha256(url).hexdigest()[:16]: a digest of the url, taken as collision free
get_url_hash(u) == <<"sha256:16", u>>

(* ------------------------------ the store ------------------------------ *)

\* UNIQUE(url_hash, item_name)
SameKey(r, s) == r.url_hash = s.url_hash /\ r.item_name = s.item_name

\* a plain INSERT on a table without the UNIQUE constraint
InsertPlain(table, row) == Append(table, row)

\* INSERT OR IGNORE: a conflicting row is kept as it is
InsertOrIgnore(table, row) ==
    IF \E i \in DOMAIN table : SameKey(table[i], row) THEN table ELSE Append(table, row)

\* an upsert that first clears every row of the fingerprint
InsertAfterPurge(table, row) ==
    SelectSeq(table, LAMBDA r : r.url_hash # row.url_hash) \o <<row>>

\* INSERT OR REPLACE: the rows the new row conflicts with are deleted, then
\* the new row is inserted at the end of the table
InsertOrReplace(table, row) ==
    SelectSeq(table, LAMBDA r : ~SameKey(r, row)) \o <<row>>

\* the attributes __init__ sets on the instance
InstanceAttributes == {"deals", "db_lock", "driver"}

\* validate_deal_info starts by reading self.schema_mapping, an attribute
\* nothing sets: it raises AttributeError for every record, and no step of
\* the pipeline calls it
validate_deal_info_raises == "schema_mapping" \notin InstanceAttributes

\* the row save_deal_to_db binds to the statement, written at time now
RowOf(deal_info, now) ==
    [ url_hash           |-> get_url_hash(Get(deal_info, "url", Url(<<>>)).v),
      restaurant         |-> Get(deal_info, "restaurant", Str("")),
      item_name          |-> Get(deal_info, "name", Str("")),
      price              |-> Num(Float(Get(deal_info, "price", Num(0))).n),
      description        |-> Get(deal_info, "description", Str("")),
      promotion_type     |-> Get(deal_info, "promotion", Str("")),
      delivery_fee       |-> Get(deal_info, "delivery_fee", Str("")),
      rating_and_reviews |-> Get(deal_info, "rating_and_reviews", Str("")),
      delivery_time      |-> Get(deal_info, "delivery_time", Str("")),
      url                |-> Get(deal_info, "url", Url(<<>>)),
      timestamp          |-> now ]

\* the statement raises: float() fails, or a NOT NULL column is bound to None
SaveRaises(deal_info) ==
    \/ ~Float(Get(deal_info, "price", Num(0))).ok
    \/ Get(deal_info, "restaurant", Str("")) = None
    \/ Get(deal_info, "name", Str("")) = None

\* save_deal_to_db: the table after the call; dbOk is FALSE when sqlite itself
\* raises (connect, execute or commit). Every exception is printed and dropped.
save_deal_to_db(table, deal_info, now, dbOk) ==
    IF dbOk /\ ~SaveRaises(deal_info)
    THEN InsertOrReplace(table, RowOf(deal_info, now))
    ELSE table

\* whether that call committed its row
SaveCommits(deal_info, dbOk) == dbOk /\ ~SaveRaises(deal_info)

\* what the call did: whether it committed, and the timestamp of the row it
\* replaced (-1 when it replaced none)
SaveOutcome(table, deal_info, dbOk) ==
    LET old == {i \in DOMAIN table : SameKey(table[i], RowOf(deal_info, 0))}
    IN  [ commit   |-> SaveCommits(deal_info, dbOk),
          replaced |-> IF SaveCommits(deal_info, dbOk) /\ old # {}
                       THEN table[CHOOSE i \in old : TRUE].timestamp ELSE -1 ]

\* the rows under a fingerprint, as indices into the table
RowsUnder(table, h) == {i \in DOMAIN table : table[i].url_hash = h}

\* the dict get_existing_deals builds from a row
DealOfRow(r) ==
    [ restaurant         |-> r.restaurant,
      name               |-> r.item_name,
      price              |-> r.price,
      description        |-> r.description,
      promotion          |-> r.promotion_type,
      delivery_fee       |-> r.delivery_fee,
      rating_and_reviews |-> r.rating_and_reviews,
      delivery_time      |-> r.delivery_time,
      url                |-> r.url,
      timestamp          |-> r.timestamp ]

\* ORDER BY timestamp DESC: every order of the rows with no later row after an
\* earlier one (sqlite leaves the order of equal timestamps open)
OrderedByTimestampDesc(table, idx) ==
    {s \in [1..Cardinality(idx) -> idx] :
        /\ \A i, j \in DOMAIN s : i # j => s[i] # s[j]
        /\ \A i, j \in DOMAIN s :
              i < j => table[s[i]].timestamp >= table[s[j]].timestamp}

\* the lookup with the url itself bound to the url_hash column
get_existing_deals_by_url(table, u, dbOk) ==
    IF ~dbOk THEN {<<>>}
    ELSE {[i \in DOMAIN s |-> DealOfRow(table[s[i]])] :
             s \in OrderedByTimestampDesc(table, RowsUnder(table, u))}

\* get_existing_deals: the lists it can return; [] when sqlite raises
get_existing_deals(table, u, dbOk) ==
    IF ~dbOk THEN {<<>>}
    ELSE {[i \in DOMAIN s |-> DealOfRow(table[s[i]])] :
             s \in OrderedByTimestampDesc(table, RowsUnder(table, get_url_hash(u)))}

(* ------------------------- the extraction model ------------------------ *)

\* deal records the model returns inside "deals"
Burger == [name |-> Str("Burger"), price |-> Num(999),
           description |-> Str(""), promotion |-> Str("BOGO")]
\* a record with keys beyond the four the prompt asks for
Pizza == [name |-> Str("Pizza"), price |-> Str("7.50"),
          description |-> Str("Margherita"), promotion |-> Str("Top Offer"),
          restaurant |-> Str("Roma Pizzeria"), url |-> Str("ubereats.com/item/pizza")]
Wrap == [name |-> Str("Wrap"), price |-> Str("12,99 €"),
         description |-> Str(""), promotion |-> Str("BOGO")]
\* the same item with the price left out, and with a null price
BurgerNoPrice == [name |-> Str("Burger"), description |-> Str(""),
                  promotion |-> Str("BOGO")]
BurgerNullPrice == [name |-> Str("Burger"), price |-> None,
                    description |-> Str(""), promotion |-> Str("BOGO")]

\* json.loads on the texts the model is seen to produce; a text outside the
\* table is not JSON (JSONDecodeError)
JsonValue ==
    [ j \in {"{deals:[Burger]}", "{deals:[Pizza]}", "{deals:[Wrap]}",
             "{deals:[Burger,n/a]}", "{deals:[]}", "{}", "[Burger]"} |->
        CASE j = "{deals:[Burger]}" -> [type |-> "dict", d |-> [deals |-> <<Burger>>]]
          [] j = "{deals:[Pizza]}"  -> [type |-> "dict", d |-> [deals |-> <<Pizza>>]]
          [] j = "{deals:[Wrap]}"   -> [type |-> "dict", d |-> [deals |-> <<Wrap>>]]
          [] j = "{deals:[Burger,n/a]}"
                                    -> [type |-> "dict", d |-> [deals |-> <<Burger, Str("n/a")>>]]
          [] j = "{deals:[]}"       -> [type |-> "dict", d |-> [deals |-> <<>>]]
          [] j = "{}"               -> [type |-> "dict", d |-> [none |-> <<>>]]
          [] j = "[Burger]"         -> [type |-> "list", d |-> [none |-> <<>>]] ]

\* the markdown fence of three backquotes, and the fence that opens a json block
Fence == "<fence>"
JsonFence == "<fence>json"

\* s.split(sep)[0] and the rest after the first sep, on token sequences
Before(s, sep) ==
    IF \E i \in DOMAIN s : s[i] = sep
    THEN SubSeq(s, 1, (CHOOSE i \in DOMAIN s :
                          s[i] = sep /\ \A j \in 1..(i - 1) : s[j] # sep) - 1)
    ELSE s
After(s, sep) ==
    SubSeq(s, (CHOOSE i \in DOMAIN s :
                  s[i] = sep /\ \A j \in 1..(i - 1) : s[j] # sep) + 1, Len(s))

\* an unwrapping that takes everything after the json fence
UnwrapToEnd(content) ==
    IF \E i \in DOMAIN content : content[i] = JsonFence
    THEN After(content, JsonFence)
    ELSE content

\* content.split(json fence)[1].split(fence)[0]; the json fence starts with the
\* plain fence, so the second split also cuts at a further json fence
Unwrap(content) ==
    IF \E i \in DOMAIN content : content[i] = JsonFence
    THEN Before(Before(After(content, JsonFence), JsonFence), Fence)
    ELSE content

\* content.strip(): whitespace tokens at both ends are dropped
RECURSIVE Strip(_)
Strip(s) ==
    IF s = <<>> THEN s
    ELSE IF Head(s) = " " THEN Strip(Tail(s))
    ELSE IF s[Len(s)] = " " THEN Strip(SubSeq(s, 1, Len(s) - 1))
    ELSE s

\* json.loads(text): white space around the document is skipped
Loads(text) ==
    LET document == Strip(text)
    IN  IF Len(document) = 1 /\ document[1] \in DOMAIN JsonValue
        THEN [ok |-> TRUE, value |-> JsonValue[document[1]]]
        ELSE [ok |-> FALSE, value |-> <<>>]

\* what the chat completion call can give for a fragment
Responses ==
    { [api_error |-> TRUE, content |-> <<>>],
      [api_error |-> FALSE, content |-> <<"Sorry, I cannot help with that.">>],
      [api_error |-> FALSE, content |-> <<"[Burger]">>],
      [api_error |-> FALSE, content |-> <<"{deals:[]}">>],
      [api_error |-> FALSE, content |-> <<"Here you go:", " ", JsonFence, " ", "{deals:[Burger]}", " ", Fence>>],
      [api_error |-> FALSE, content |-> <<" ", "{deals:[Pizza]}", " ">>],
      [api_error |-> FALSE, content |-> <<"{deals:[Wrap]}">>],
      [api_error |-> FALSE, content |-> <<"{deals:[Burger,n/a]}">>] }

\* process_menu_item: the deals of one fragment, or the exception it raises
process_menu_item(response) ==
    LET text == Strip(Unwrap(response.content))
        isJson == Len(text) = 1 /\ text[1] \in DOMAIN JsonValue
        value == JsonValue[text[1]]
    IN  IF response.api_error THEN [exc |-> TRUE, deals |-> <<>>]
        ELSE IF ~isJson THEN [exc |-> TRUE, deals |-> <<>>]
        ELSE IF value.type # "dict" THEN [exc |-> TRUE, deals |-> <<>>]
        ELSE IF "deals" \in DOMAIN value.d /\ value.d.deals # <<>>
             THEN [exc |-> FALSE, deals |-> value.d.deals]
        ELSE [exc |-> FALSE, deals |-> <<>>]

(* ----------------------------- the segmenter --------------------------- *)

\* range(9): the parent steps taken from a promo tag
PromoDepth == 9

\* An element is the path from the BeautifulSoup object down to it; the parent
\* of the BeautifulSoup object is None.
Divs(n) == [i \in 1..n |-> "div"]
Marker(item, wrappers) ==
    <<"[document]", "html", "body", "main">> \o <<item>> \o Divs(wrappers) \o <<"img">>

\* a walk that takes every one of its steps, past the element without a parent
RECURSIVE ClimbPastRoot(_, _)
ClimbPastRoot(current, steps) ==
    IF steps = 0 \/ current = <<>> THEN current
    ELSE ClimbPastRoot(SubSeq(current, 1, Len(current) - 1), steps - 1)

\* the loop of extract_deals_with_llm: up to PromoDepth parents, stopping at
\* the element without a parent
RECURSIVE Climb(_, _)
Climb(current, steps) ==
    IF steps = 0 \/ Len(current) = 1 THEN current
    ELSE Climb(SubSeq(current, 1, Len(current) - 1), steps - 1)

\* a segmenter that sends the whole document when it finds no promo tag
MenuItemsOrPage(html) ==
    IF html = <<>> THEN << <<"[document]">> >>
    ELSE [i \in DOMAIN html |-> Climb(html[i], PromoDepth)]

\* menu_items: one fragment per promo tag, in document order
MenuItems(html) == [i \in DOMAIN html |-> Climb(html[i], PromoDepth)]

\* detail pages, each the sequence of its promo-tag images
PageNone == <<>>
PageOne == <<Marker("li#1", 8)>>
PageTwo == <<Marker("li#1", 8), Marker("li#2", 8)>>

\* the documents the site may serve for a detail link
Served(link) ==
    IF link = QuickView(HrefRoma) THEN {PageOne, PageTwo} ELSE {PageNone}

\* the raised exception of the first failed fragment is re-raised by
\* extract_deals_with_llm; otherwise the deals of all fragments, in order
RECURSIVE Extend(_)
Extend(results) ==
    IF results = <<>> THEN <<>> ELSE Head(results).deals \o Extend(Tail(results))

BatchRaises(results) == \E i \in DOMAIN results : results[i].exc

\* extract_deal_details after the fetch: deals stays [] when the batch raised
BatchDeals(results) == IF BatchRaises(results) THEN <<>> ELSE Extend(results)

(* ------------------------------ the listing ---------------------------- *)

CardRoma == [h3 |-> Str("Roma"), aria |-> None, href |-> HrefRoma,
             promo |-> Str("Buy 1, Get 1 Free")]
CardThai == [h3 |-> None, aria |-> Str("Thai"), href |-> HrefThai, promo |-> None]
CardNoName == [h3 |-> None, aria |-> None, href |-> HrefThai, promo |-> None]
CardNoLink == [h3 |-> Str("Roma"), aria |-> None, href |-> NoHref, promo |-> None]

\* the store cards the listing page may show
Listings ==
    { <<>>, <<CardRoma, CardThai>>, <<CardNoName, CardRoma>>, <<CardThai, CardNoLink>> }

\* the urls a request may name: the listing, or a restaurant's quick view
Targets == {ListingUrl, QuickView(HrefRoma)}

\* name of a card: the h3 text, else the aria-label
NameOf(card) == IF card.h3 # None THEN card.h3 ELSE card.aria

\* basic_info of process_store_card
BasicInfo(card) ==
    [ restaurant         |-> NameOf(card),
      delivery_fee       |-> Str("Not specified"),
      rating_and_reviews |-> Str(""),
      delivery_time      |-> Str("Not specified"),
      promotion          |-> IF card.promo # None THEN card.promo
                             ELSE Str("No promotion displayed") ]

\* an element of "deals" that is a JSON object; dict.update raises on a
\* string in its place
IsDict(deal) == DOMAIN deal # {"t", "v"}

\* a merge in which the metadata of the card overrides the extracted record
DealInfoCardFirst(basic_info, deal, link) ==
    SetItem(Update(deal, basic_info), "url", Url(link))

\* deal_info of one extracted deal
DealInfo(basic_info, deal, link) ==
    SetItem(Update(basic_info, deal), "url", Url(link))

(* -------------------------- the progress channel ----------------------- *)

\* the notification connection of a session at the moment of a send: the
\* session has none, it has one that takes the message, or one whose
\* send_json raises
Channels == {"absent", "open", "broken"}

\* a send_progress_update with the handler of send_json left out
send_progress_update_unguarded(channel) ==
    [raised |-> channel = "broken", delivered |-> channel = "open"]

\* send_progress_update: nothing is sent without a connection, and whatever
\* send_json raises is dropped
send_progress_update(channel) ==
    [raised |-> FALSE, delivered |-> channel = "open"]

\* progress fractions are counted in thousandths
Min(a, b) == IF a <= b THEN a ELSE b

\* min(0.1 + (total_deals_found * 0.8 / 20), 0.9)
PerDealProgress(total_deals_found) ==
    Min(100 + (total_deals_found * 800) \div 20, 900)

\* the (message, progress) pairs of find_deals
SettingUp == [message |-> "Setting up Chrome driver...", progress |-> 100]
Scanning == [message |-> "Scanning restaurant page...", progress |-> 200]
FoundDeal(total_deals_found) ==
    [message |-> "Found deal: ...", progress |-> PerDealProgress(total_deals_found)]
Completed == [message |-> "Completed!", progress |-> 1000]

\* no call yet
NoProgress == [message |-> "", progress |-> 0]

(* ----------------------------- the read endpoint ----------------------- *)

\* the names bound at module level in backend/main.py; get_deals imports
\* sqlite3 and pandas inside its own body, which binds them for that call only
ModuleGlobals ==
    {"asyncio", "json", "os", "sys", "datetime", "Dict", "List", "Optional",
     "FastAPI", "HTTPException", "WebSocket", "CORSMiddleware", "BaseModel",
     "UberEatsDeals", "app", "active_connections"}

\* get_deals_by_hash: the rows WHERE url_hash = ?; the HTTPException(404) for
\* no rows is raised inside the try and leaves as a 500, as does the NameError
\* of a name that is not bound
get_deals_by_hash(table, url_hash) ==
    IF {"sqlite3", "pd"} \subseteq ModuleGlobals
    THEN IF RowsUnder(table, url_hash) = {}
         THEN [status |-> "500", rows |-> {}]
         ELSE [status |-> "200", rows |-> RowsUnder(table, url_hash)]
    ELSE [status |-> "500", rows |-> {}]

(* ------------------------- the discovery request ----------------------- *)

NoResult == [status |-> "none", found |-> 0, hash |-> <<>>]

\* what the caller sees when find_deals raises HTTPException(500), and when
\* sys.exit(1) ends the call
ServerError == [status |-> "500", found |-> 0, hash |-> <<>>]
SystemExit == [status |-> "SystemExit", found |-> 0, hash |-> <<>>]

\* a row of a deals table of the schema that had no url_hash column
LegacyRow == [restaurant |-> Str("Roma"), item_name |-> Str("Burger"),
              price |-> Num(999), timestamp |-> 0]

\* setup_database: a table without the url_hash column is dropped, then the
\* table of the current schema is created if there is none
setup_database(table) ==
    IF \E i \in DOMAIN table : "url_hash" \notin DOMAIN table[i] THEN <<>> ELSE table

\* a process_store_card task that has not run yet
NewTask(card) ==
    [ st             |-> "pending",
      card           |-> card,
      link           |-> <<>>,       \* link, once computed
      results        |-> <<>>,       \* one entry per process_menu_item task
      specific_deals |-> <<>>,       \* what extract_deal_details returned
      deals          |-> <<>>,       \* the list the task returns
      saved          |-> <<>>,       \* per save_deal_to_db call: what it did
      promo_tags     |-> -1,         \* promo tags found in the page, once parsed
      fetches        |-> 0,          \* detail-page requests sent
      calls          |-> 0,          \* chat completion calls made
      failed         |-> "" ]        \* the step that failed, if one did

\* the function-level variables, out of use
AuxIdle ==
    /\ reply = <<>>
    /\ parsed = <<>>
    /\ page = <<>>
    /\ fragments = <<>>
    /\ cleanup_time = 0
    /\ coros = <<>>
    /\ locks = <<>>
    /\ running = 0
    /\ active_connections = <<>>
    /\ websockets = <<>>

\* no request yet; the database file is new, or left by an earlier revision
Init ==
    /\ store = <<>>
    /\ clock = 0
    /\ pc = "idle"
    /\ url = <<>>
    /\ deals = <<>>
    /\ driver = "none"
    /\ total = 0
    /\ result = NoResult
    /\ cache = "none"
    /\ loadError = "none"
    /\ cards = <<>>
    /\ legacy \in {<<>>, <<LegacyRow>>}
    /\ height = 0
    /\ last_height = 0
    /\ progress = NoProgress
    /\ AuxIdle

\* find_deals is entered: a new UberEatsDeals instance (setup_database keeps a
\* table that has the url_hash column and ends in sys.exit(1) when sqlite
\* raises), total_deals_found = 0, and the first two progress updates
Request(u) ==
    /\ pc \in {"idle", "done"}
    /\ url' = u
    /\ deals' = <<>>
    /\ driver' = "none"
    /\ total' = 0
    /\ cache' = "none"
    /\ loadError' = "none"
    /\ cards' = <<>>
    /\ \/ /\ pc' = "done"
          /\ result' = SystemExit
          /\ UNCHANGED <<legacy, progress>>
       \/ \E first, second \in Channels :
             LET raised == \/ send_progress_update(first).raised
                           \/ send_progress_update(second).raised
             IN  /\ legacy' = setup_database(legacy)
                 /\ pc' = IF raised THEN "done" ELSE "cachecheck"
                 /\ result' = IF raised THEN ServerError ELSE NoResult
                 /\ progress' = Scanning
    /\ UNCHANGED aux
    /\ UNCHANGED <<height, last_height, store, clock>>

\* get_restaurant_deals, up to the return on existing deals
CacheCheck ==
    /\ pc = "cachecheck"
    /\ \E dbOk \in BOOLEAN :
         \E existing_deals \in get_existing_deals(store, url, dbOk) :
            /\ cache' = IF ~dbOk THEN "error"
                         ELSE IF existing_deals # <<>> THEN "hit" ELSE "miss"
            /\ IF existing_deals # <<>>
               THEN /\ deals' = existing_deals
                    /\ pc' = "returning"
               ELSE /\ deals' = deals
                    /\ pc' = "loading"
    /\ UNCHANGED aux
    /\ UNCHANGED <<legacy, height, last_height, progress, store, clock, url, driver, total, result, loadError, cards>>

\* self.driver: "none" before any browser was started, "up" while it holds a
\* started browser, "quit" when that browser was quit and the attribute set
\* back to None

\* initialize_driver when setup_driver succeeds: a browser is started only if
\* self.driver is None
initialize_driver(self_driver) ==
    IF self_driver \in {"none", "quit"} THEN "up" ELSE self_driver

\* a cleanup that leaves the browser running
cleanup_nothing(self_driver) == self_driver

\* cleanup: a browser that is held is quit
cleanup(self_driver) == IF self_driver = "up" THEN "quit" ELSE self_driver

\* the values document.body.scrollHeight may take
Heights == 1..MaxHeight

\* initialize_driver, driver.get and the first height reading. setup_driver
\* ends in sys.exit(1), which no "except Exception" catches; any other
\* failure is caught by the handler of get_restaurant_deals.
OpenListing ==
    /\ pc = "loading"
    /\ \/ /\ loadError' = "driver"
          /\ driver' = cleanup(driver)
          /\ pc' = "done"
          /\ result' = SystemExit
          /\ UNCHANGED <<height, last_height>>
       \/ /\ loadError' = "get"
          /\ driver' = initialize_driver(driver)
          /\ pc' = "returning"
          /\ UNCHANGED <<result, height, last_height>>
       \/ /\ height' \in Heights
          /\ last_height' = height'
          /\ driver' = initialize_driver(driver)
          /\ pc' = "scrolling"
          /\ UNCHANGED <<result, loadError>>
    /\ UNCHANGED aux
    /\ UNCHANGED <<legacy, progress, store, clock, url, deals, total, cache, cards>>

\* between two readings the page loads further cards, or gives some up
PageChange ==
    /\ pc = "scrolling"
    /\ height' \in Heights \ {height}
    /\ UNCHANGED aux
    /\ UNCHANGED <<legacy, last_height, progress, store, clock, pc, url, deals, driver,
                   total, result, cache, loadError, cards>>

\* a loop that is left as soon as the page has stopped growing
NotGrown(new_height, last) == new_height <= last

\* if new_height == last_height: break
Break(new_height, last) == new_height = last

\* one turn of the scroll loop: scroll, sleep, read new_height; on the break
\* the store cards are enumerated
ScrollRead ==
    /\ pc = "scrolling"
    /\ LET new_height == height
       IN  \/ /\ loadError' = "scroll"
              /\ pc' = "returning"
              /\ height' = 0 /\ last_height' = 0
              /\ cards' = cards
           \/ /\ ~Break(new_height, last_height)
              /\ last_height' = new_height
              /\ UNCHANGED <<pc, height, loadError, cards>>
           \/ /\ Break(new_height, last_height)
              /\ height' = 0 /\ last_height' = 0
              /\ \/ /\ loadError' = "cards"
                    /\ pc' = "returning"
                    /\ cards' = cards
                 \/ /\ \E listing \in Listings :
                          cards' = [i \in DOMAIN listing |-> NewTask(listing[i])]
                    /\ pc' = "cards"
                    /\ loadError' = loadError
    /\ UNCHANGED aux
    /\ UNCHANGED <<legacy, progress, store, clock, url, deals, driver, total, result, cache>>

\* process_store_card up to its first await: the name, the link, basic_info,
\* then the request for the detail page
StartCard(c) ==
    /\ pc = "cards"
    /\ cards[c].st = "pending"
    /\ LET card == cards[c].card
           name == NameOf(card)
       IN  cards' = [cards EXCEPT ![c] =
              IF name = None \/ name = Str("")
              THEN [@ EXCEPT !.st = "done", !.failed = "name"]
              ELSE IF card.href = NoHref
              THEN [@ EXCEPT !.st = "done", !.failed = "link"]
              ELSE [@ EXCEPT !.st = "fetching",
                             !.link = QuickView(card.href),
                             !.fetches = @ + 1]]
    /\ UNCHANGED aux
    /\ UNCHANGED <<legacy, height, last_height, progress, store, clock, pc, url, deals, driver, total, result, cache, loadError>>

\* extract_deals_with_llm up to the gather: no promo tag, no model call
Segment(task, html) ==
    LET menu_items == MenuItems(html)
    IN  IF menu_items = <<>>
        THEN [task EXCEPT !.st = "done", !.promo_tags = Len(html)]
        ELSE [task EXCEPT !.st = "extracting",
                          !.promo_tags = Len(html),
                          !.results = [i \in DOMAIN menu_items |->
                                         [st |-> "called", exc |-> FALSE, deals |-> <<>>]],
                          !.calls = @ + Len(menu_items)]

\* the detail page arrives: a status other than 200 and a raised error both
\* leave deals = []
FetchReturn(c) ==
    /\ pc = "cards"
    /\ cards[c].st = "fetching"
    /\ \/ cards' = [cards EXCEPT ![c] = [@ EXCEPT !.st = "done", !.failed = "fetch"]]
       \/ cards' = [cards EXCEPT ![c] = [@ EXCEPT !.st = "done", !.failed = "http"]]
       \/ \E html \in Served(cards[c].link) :
             cards' = [cards EXCEPT ![c] = Segment(@, html)]
    /\ UNCHANGED aux
    /\ UNCHANGED <<legacy, height, last_height, progress, store, clock, pc, url, deals, driver, total, result, cache, loadError>>

\* one process_menu_item task ends
LlmReturn(c, f) ==
    /\ pc = "cards"
    /\ cards[c].st = "extracting"
    /\ cards[c].results[f].st = "called"
    /\ \E response \in Responses :
          LET r == process_menu_item(response)
          IN  cards' = [cards EXCEPT ![c].results[f] =
                           [st |-> "returned", exc |-> r.exc, deals |-> r.deals]]
    /\ UNCHANGED aux
    /\ UNCHANGED <<legacy, height, last_height, progress, store, clock, pc, url, deals, driver, total, result, cache, loadError>>

\* a gather that returns with the first task that ends
GatheredAny(results) == \E f \in DOMAIN results : results[f].st = "returned"

\* asyncio.gather returns when every process_menu_item task has ended
Gathered(results) == \A f \in DOMAIN results : results[f].st = "returned"

\* the gather of extract_deals_with_llm returns; extract_deal_details hands
\* its deals to process_store_card
Combine(c) ==
    /\ pc = "cards"
    /\ cards[c].st = "extracting"
    /\ Gathered(cards[c].results)
    /\ LET specific_deals == BatchDeals(cards[c].results)
       IN  cards' = [cards EXCEPT ![c] =
              [@ EXCEPT !.specific_deals = specific_deals,
                        !.failed = IF BatchRaises(cards[c].results) THEN "extract" ELSE "",
                        !.st = IF specific_deals = <<>> THEN "done" ELSE "saving"]]
    /\ UNCHANGED aux
    /\ UNCHANGED <<legacy, height, last_height, progress, store, clock, pc, url, deals, driver, total, result, cache, loadError>>

\* one turn of the loop over specific_deals, with new_save_deal of find_deals
\* in the place of save_deal_to_db; after the last turn the task returns its
\* deals. A deal that is no dict raises in the turn, and the handler of the
\* task returns [].
SaveDeal(c) ==
    /\ pc = "cards"
    /\ cards[c].st = "saving"
    /\ LET task == cards[c]
           i == Len(task.deals) + 1
           deal_info == DealInfo(BasicInfo(task.card), task.specific_deals[i], task.link)
       IN  IF ~IsDict(task.specific_deals[i])
           THEN /\ cards' = [cards EXCEPT ![c] =
                      [@ EXCEPT !.deals = <<>>, !.failed = "merge", !.st = "done"]]
                /\ UNCHANGED <<store, total, progress>>
           ELSE \E dbOk \in BOOLEAN, channel \in Channels :
                  /\ store' = save_deal_to_db(store, deal_info, clock, dbOk)
                  /\ total' = total + 1
                  /\ progress' = FoundDeal(total')
                  /\ cards' = [cards EXCEPT ![c] =
                        IF send_progress_update(channel).raised
                        THEN [@ EXCEPT !.deals = <<>>,
                                       !.saved = Append(@, SaveOutcome(store, deal_info, dbOk)),
                                       !.failed = "notify", !.st = "done"]
                        ELSE [@ EXCEPT !.deals = Append(@, deal_info),
                                       !.saved = Append(@, SaveOutcome(store, deal_info, dbOk)),
                                       !.st = IF i = Len(task.specific_deals)
                                              THEN "done" ELSE "saving"]]
    /\ UNCHANGED aux
    /\ UNCHANGED <<legacy, height, last_height, clock, pc, url, deals, driver, result,
                   cache, loadError>>

\* a gather that lets the first failed task end the aggregation
RECURSIVE AggregatedUntilFailure(_)
AggregatedUntilFailure(tasks) ==
    IF tasks = <<>> \/ Head(tasks).failed # "" THEN <<>>
    ELSE Head(tasks).deals \o AggregatedUntilFailure(Tail(tasks))

\* self.deals.extend(deals) for the result of every task, in task order
RECURSIVE Aggregated(_)
Aggregated(tasks) ==
    IF tasks = <<>> THEN <<>> ELSE Head(tasks).deals \o Aggregated(Tail(tasks))

\* the gather of get_restaurant_deals returns
Aggregate ==
    /\ pc = "cards"
    /\ \A c \in DOMAIN cards : cards[c].st = "done"
    /\ deals' = deals \o Aggregated(cards)
    /\ pc' = "returning"
    /\ UNCHANGED aux
    /\ UNCHANGED <<legacy, height, last_height, progress, store, clock, url, driver, total, result, cache, loadError, cards>>

\* get_restaurant_deals has returned: find_deals answers, cleanup quits the driver
Respond ==
    /\ pc = "returning"
    /\ \E channel \in Channels :
          /\ progress' = Completed
          /\ result' = IF send_progress_update(channel).raised THEN ServerError
                        ELSE [status |-> "success", found |-> total,
                              hash |-> get_url_hash(url)]
    /\ driver' = cleanup(driver)
    /\ pc' = "done"
    /\ UNCHANGED aux
    /\ UNCHANGED <<legacy, height, last_height, store, clock, url, deals, total, cache, loadError, cards>>

\* deal_info dicts another run may be saving at the same time
OtherDeals ==
    { DealInfo(BasicInfo(CardRoma), d, QuickView(HrefRoma)) :
        d \in {BurgerNoPrice, BurgerNullPrice} }

\* save_deal_to_db of another instance, on the same database; its constructor
\* has left a table of the current schema
ConcurrentSave ==
    /\ legacy = <<>>
    /\ \E deal_info \in OtherDeals, dbOk \in BOOLEAN :
          store' = save_deal_to_db(store, deal_info, clock, dbOk)
    /\ UNCHANGED aux
    /\ UNCHANGED <<legacy, height, last_height, progress, clock, pc, url, deals, driver, total, result, cache, loadError, cards>>

\* a second passes
Tick ==
    /\ clock < MaxClock
    /\ clock' = clock + 1
    /\ UNCHANGED aux
    /\ UNCHANGED <<legacy, height, last_height, progress, store, pc, url, deals, driver, total, result, cache, loadError, cards>>

Next ==
    \/ \E u \in Targets : Request(u)
    \/ CacheCheck
    \/ OpenListing
    \/ PageChange
    \/ ScrollRead
    \/ \E c \in DOMAIN cards : StartCard(c)
    \/ \E c \in DOMAIN cards : FetchReturn(c)
    \/ \E c \in DOMAIN cards : \E f \in DOMAIN cards[c].results : LlmReturn(c, f)
    \/ \E c \in DOMAIN cards : Combine(c)
    \/ \E c \in DOMAIN cards : SaveDeal(c)
    \/ Aggregate
    \/ Respond
    \/ ConcurrentSave
    \/ Tick

Spec == Init /\ [][Next]_vars

\* the request with a driver that answers every script call in the end: a
\* reading of the scroll loop that can be taken is taken
SpecLive == Spec /\ WF_vars(ScrollRead)

(* ------------------- save_deal_to_db on the event loop ------------------ *)

\* Coroutines of one event loop, each the save loop of a process_store_card
\* task: two tasks of one UberEatsDeals instance, one task of another. A
\* coroutine keeps the loop until a statement of it suspends.

\* deal_info dicts the tasks hold
RomaBurger == DealInfo(BasicInfo(CardRoma), Burger, QuickView(HrefRoma))
RomaPizza == DealInfo(BasicInfo(CardRoma), Pizza, QuickView(HrefRoma))
RomaWrap == DealInfo(BasicInfo(CardRoma), Wrap, QuickView(HrefRoma))

\* the deals a task may have to save, in order
Todos == { <<RomaBurger>>, <<RomaWrap, RomaPizza>>, <<RomaPizza, RomaWrap>> }

\* the instance of each coroutine
InstanceOf == <<1, 1, 2>>

\* a task about to call save_deal_to_db for the first of its deals
NewCoro(instance, todo) ==
    [ inst    |-> instance,
      given   |-> todo,        \* the deals of the task
      todo    |-> todo,        \* deals not saved yet
      at      |-> "acquire",   \* the statement it executes next
      entry   |-> <<>>,        \* the table when the call took the lock
      row     |-> <<>>,        \* the row of its open transaction
      saved   |-> <<>> ]       \* per ended call: whether it committed

InitSave ==
    /\ store = <<>>
    /\ clock = 0
    /\ pc = "idle"
    /\ url = <<>>
    /\ deals = <<>>
    /\ driver = "none"
    /\ total = 0
    /\ result = NoResult
    /\ cache = "none"
    /\ loadError = "none"
    /\ cards = <<>>
    /\ legacy = <<>>
    /\ height = 0
    /\ last_height = 0
    /\ progress = NoProgress
    /\ reply = <<>>
    /\ parsed = <<>>
    /\ page = <<>>
    /\ fragments = <<>>
    /\ cleanup_time = 0
    /\ \E t1, t2, t3 \in Todos :
          coros = <<NewCoro(InstanceOf[1], t1), NewCoro(InstanceOf[2], t2),
                    NewCoro(InstanceOf[3], t3)>>
    /\ locks = [i \in {1, 2} |-> 0]
    /\ running = 0
    /\ active_connections = <<>>
    /\ websockets = <<>>

\* a save whose sqlite calls are awaited, so that the loop runs other
\* coroutines while the statement is sent
SuspendsOnSqlite(stmt, locked) ==
    \/ stmt = "acquire" /\ locked
    \/ stmt \in {"execute", "release"}

\* whether the coroutine gives up the loop after the statement: acquiring a
\* held lock waits; the sqlite3 calls are blocking calls; after the return
\* new_save_deal awaits its progress update
Suspends(stmt, locked) ==
    \/ stmt = "acquire" /\ locked
    \/ stmt = "release"

\* an exception that ends the task with the lock still held
AfterExceptionAbandon(coro) == [coro EXCEPT !.at = "done", !.row = <<>>]

\* the handler of save_deal_to_db: the exception is printed, the call ends
\* without a commit
AfterException(coro) ==
    [coro EXCEPT !.at = "release", !.row = <<>>,
                 !.saved = Append(@, [commit |-> FALSE])]

\* one statement of coroutine k
Step(k) ==
    /\ running \in {0, k}
    /\ coros[k].at # "done"
    /\ LET coro == coros[k]
           stmt == coro.at
           deal_info == Head(coro.todo)
           locked == locks[coro.inst] # 0
       IN  /\ running' = IF Suspends(stmt, locked) THEN 0 ELSE k
           /\ \E ok \in BOOLEAN :
                 CASE stmt = "acquire" ->
                        \* async with self.db_lock
                        /\ locks' = IF locked THEN locks ELSE [locks EXCEPT ![coro.inst] = k]
                        /\ coros' = [coros EXCEPT ![k] =
                              IF locked THEN coro
                              ELSE [coro EXCEPT !.at = "connect", !.entry = store]]
                        /\ store' = store
                   [] stmt = "connect" ->
                        \* sqlite3.connect, conn.cursor
                        /\ coros' = [coros EXCEPT ![k] =
                              IF ok THEN [coro EXCEPT !.at = "execute"]
                              ELSE AfterException(coro)]
                        /\ UNCHANGED <<locks, store>>
                   [] stmt = "execute" ->
                        \* insert_values, cursor.execute
                        /\ coros' = [coros EXCEPT ![k] =
                              IF ok /\ ~SaveRaises(deal_info)
                              THEN [coro EXCEPT !.at = "commit", !.row = RowOf(deal_info, clock)]
                              ELSE AfterException(coro)]
                        /\ UNCHANGED <<locks, store>>
                   [] stmt = "commit" ->
                        \* conn.commit, conn.close
                        /\ coros' = [coros EXCEPT ![k] =
                              IF ok THEN [coro EXCEPT !.at = "release", !.row = <<>>,
                                                      !.saved = Append(@, [commit |-> TRUE])]
                              ELSE AfterException(coro)]
                        /\ store' = IF ok THEN InsertOrReplace(store, coro.row) ELSE store
                        /\ locks' = locks
                   [] stmt = "release" ->
                        \* the end of the async with block; the task goes on
                        \* with its next deal
                        /\ locks' = [locks EXCEPT ![coro.inst] = 0]
                        /\ coros' = [coros EXCEPT ![k] =
                              [coro EXCEPT !.todo = Tail(@), !.entry = <<>>,
                                           !.at = IF Tail(coro.todo) = <<>>
                                                  THEN "done" ELSE "acquire"]]
                        /\ store' = store
    /\ UNCHANGED <<clock, pc, url, deals, driver, total, result, cache, loadError, cards,
                   legacy, height, last_height, progress>>
    /\ UNCHANGED <<reply, parsed, page, fragments, cleanup_time, active_connections, websockets>>

NextSave == \E k \in DOMAIN coros : Step(k)

SpecSave == InitSave /\ [][NextSave]_vars

(* ----------------- the unwrapping of a model response ------------------ *)

\* the tokens a response is made of
ReplyTokens == {JsonFence, Fence, " ", "{deals:[Burger]}", "Here you go:"}

\* the responses of at most n tokens
RECURSIVE Replies(_)
Replies(n) ==
    IF n = 0 THEN {<<>>}
    ELSE Replies(n - 1) \cup
         {Append(r, t) : r \in {x \in Replies(n - 1) : Len(x) = n - 1}, t \in ReplyTokens}

NotParsed == [text |-> <<>>, ok |-> FALSE, value |-> <<>>, done |-> FALSE]

InitUnwrap ==
    /\ store = <<>>
    /\ clock = 0
    /\ pc = "idle"
    /\ url = <<>>
    /\ deals = <<>>
    /\ driver = "none"
    /\ total = 0
    /\ result = NoResult
    /\ cache = "none"
    /\ loadError = "none"
    /\ cards = <<>>
    /\ legacy = <<>>
    /\ height = 0
    /\ last_height = 0
    /\ progress = NoProgress
    /\ reply \in Replies(MaxReplyLen)
    /\ parsed = NotParsed
    /\ page = <<>>
    /\ fragments = <<>>
    /\ cleanup_time = 0
    /\ coros = <<>>
    /\ locks = <<>>
    /\ running = 0
    /\ active_connections = <<>>
    /\ websockets = <<>>

\* process_menu_item from the response to the result of json.loads
ParseReply ==
    /\ ~parsed.done
    /\ LET content == Unwrap(reply)
           text == Strip(content)
       IN  parsed' = [text |-> text, ok |-> Loads(text).ok,
                      value |-> Loads(text).value, done |-> TRUE]
    /\ UNCHANGED run
    /\ UNCHANGED <<reply, page, fragments, cleanup_time, coros, locks, running,
                   active_connections, websockets>>

NextUnwrap == ParseReply

SpecUnwrap == InitUnwrap /\ [][NextUnwrap]_vars

(* ------------------------ the segmenter on a page ----------------------- *)

\* the promo tags a page may hold: in one of two menu items, at any nesting
PromoTags == {Marker(item, w) : item \in {"li#1", "li#2"}, w \in 0..MaxWrappers}

\* the pages of at most n promo tags, each the sequence of its tags in
\* document order
RECURSIVE Pages(_)
Pages(n) ==
    IF n = 0 THEN {<<>>}
    ELSE Pages(n - 1) \cup
         {Append(p, t) : p \in {x \in Pages(n - 1) : Len(x) = n - 1},
                         t \in PromoTags}

\* two promo tags are two elements
DistinctTags(p) == \A i, j \in DOMAIN p : i # j => p[i] # p[j]

NotSegmented == [done |-> FALSE, items |-> <<>>]

InitSegment ==
    /\ store = <<>>
    /\ clock = 0
    /\ pc = "idle"
    /\ url = <<>>
    /\ deals = <<>>
    /\ driver = "none"
    /\ total = 0
    /\ result = NoResult
    /\ cache = "none"
    /\ loadError = "none"
    /\ cards = <<>>
    /\ legacy = <<>>
    /\ height = 0
    /\ last_height = 0
    /\ progress = NoProgress
    /\ reply = <<>>
    /\ parsed = NotParsed
    /\ page \in {p \in Pages(MaxMarkers) : DistinctTags(p)}
    /\ fragments = NotSegmented
    /\ cleanup_time = 0
    /\ coros = <<>>
    /\ locks = <<>>
    /\ running = 0
    /\ active_connections = <<>>
    /\ websockets = <<>>

\* extract_deals_with_llm from the parsed page to menu_items
SegmentPage ==
    /\ ~fragments.done
    /\ fragments' = [done |-> TRUE, items |-> MenuItems(page)]
    /\ UNCHANGED run
    /\ UNCHANGED <<reply, parsed, page, cleanup_time, coros, locks, running,
                   active_connections, websockets>>

NextSegment == SegmentPage

SpecSegment == InitSegment /\ [][NextSegment]_vars

(* ------------------------------ the janitor ---------------------------- *)

\* Instants are seconds since midnight of the first day, in UTC.
SecondsPerDay == 86400
ThirtyMinutes == 1800
Instants == {SecondsPerDay - 3600 + 600 * i : i \in 0..MaxInstants}

\* hours the local time of the janitor's host is ahead of UTC
UtcOffsets == {0, 1}

\* CURRENT_TIMESTAMP as sqlite stores it: date, a blank, time of day
CurrentTimestamp(t) == <<t \div SecondsPerDay, " ", t % SecondsPerDay>>

\* datetime.isoformat(): date, the letter T, time of day
IsoFormat(t) == <<t \div SecondsPerDay, "T", t % SecondsPerDay>>

\* the order of the two separators as characters
CharRank(ch) == IF ch = " " THEN 32 ELSE 84

\* a < b for two texts of sqlite, compared as strings: the dates and the
\* times are digits of fixed width, so they compare as their numbers do
TextLess(a, b) ==
    \/ a[1] < b[1]
    \/ a[1] = b[1] /\ CharRank(a[2]) < CharRank(b[2])
    \/ a[1] = b[1] /\ a[2] = b[2] /\ a[3] < b[3]

\* cleanup_stale_deals called at local time local_now: DELETE FROM deals WHERE
\* timestamp < ? with the isoformat of thirty minutes before; an exception
\* is printed and nothing is deleted
cleanup_stale_deals(table, local_now, dbOk) ==
    LET thirty_mins_ago == IsoFormat(local_now - ThirtyMinutes)
    IN  IF dbOk
        THEN SelectSeq(table, LAMBDA r :
                 ~TextLess(CurrentTimestamp(r.timestamp), thirty_mins_ago))
        ELSE table

\* tables of up to two rows, each written by save_deal_to_db at some instant
JanitorTables ==
    {<<>>} \cup {<<RowOf(RomaBurger, t)>> : t \in Instants}
           \cup {<<RowOf(RomaBurger, t), RowOf(RomaPizza, u)>> : t, u \in Instants}

NoCleanup == [utc |-> 0, offset |-> 0, done |-> FALSE, ok |-> FALSE]

InitJanitor ==
    /\ store \in JanitorTables
    /\ clock = 0
    /\ pc = "idle"
    /\ url = <<>>
    /\ deals = <<>>
    /\ driver = "none"
    /\ total = 0
    /\ result = NoResult
    /\ cache = "none"
    /\ loadError = "none"
    /\ cards = <<>>
    /\ legacy = <<>>
    /\ height = 0
    /\ last_height = 0
    /\ progress = NoProgress
    /\ reply = <<>>
    /\ parsed = NotParsed
    /\ page = <<>>
    /\ fragments = NotSegmented
    /\ cleanup_time = NoCleanup
    /\ coros = <<>>
    /\ locks = <<>>
    /\ running = 0
    /\ active_connections = <<>>
    /\ websockets = <<>>

\* one run of the janitor, after every row of the table was written
Cleanup ==
    /\ ~cleanup_time.done
    /\ \E t \in Instants, offset \in UtcOffsets, dbOk \in BOOLEAN :
          /\ \A i \in DOMAIN store : store[i].timestamp <= t
          /\ cleanup_time' = [utc |-> t, offset |-> offset, done |-> TRUE, ok |-> dbOk]
          /\ store' = cleanup_stale_deals(store, t + 3600 * offset, dbOk)
    /\ UNCHANGED <<clock, pc, url, deals, driver, total, result, cache, loadError, cards,
                   legacy, height, last_height, progress>>
    /\ UNCHANGED <<reply, parsed, page, fragments, coros, locks, running,
                   active_connections, websockets>>

NextJanitor == Cleanup

SpecJanitor == InitJanitor /\ [][NextJanitor]_vars

(* ---------------------- the notification connections -------------------- *)

\* Clients open connections to /ws/{session_id}; each runs websocket_endpoint
\* as a coroutine of the one event loop. A coroutine keeps the loop between
\* two awaits, so the return of accept() and the registration are one step,
\* and so are the exception of receive_text() and the handler.

\* connections the clients may open in all
MaxConnections == 3

Connections == 1..MaxConnections

\* session ids the clients use
Sessions == {"s1", "s2"}

\* a connection no client has opened yet. at: "none", "connecting" (the
\* endpoint awaits accept), "open" (accepted, awaiting receive_text) or
\* "closed"; seq: its rank among the accepted connections; received: whether
\* a progress update reached it
NoSocket == [at |-> "none", session_id |-> "", seq |-> 0, received |-> FALSE]

\* active_connections[session_id] = websocket
SetEntry(registry, session_id, websocket) ==
    [s \in DOMAIN registry \cup {session_id} |->
        IF s = session_id THEN websocket ELSE registry[s]]

\* if session_id in active_connections: del active_connections[session_id]
DelEntry(registry, session_id) ==
    IF session_id \in DOMAIN registry
    THEN [s \in DOMAIN registry \ {session_id} |-> registry[s]]
    ELSE registry

\* the connections accepted so far
Accepted == {c \in Connections : websockets[c].seq > 0}

InitSocket ==
    /\ store = <<>>
    /\ clock = 0
    /\ pc = "idle"
    /\ url = <<>>
    /\ deals = <<>>
    /\ driver = "none"
    /\ total = 0
    /\ result = NoResult
    /\ cache = "none"
    /\ loadError = "none"
    /\ cards = <<>>
    /\ legacy = <<>>
    /\ height = 0
    /\ last_height = 0
    /\ progress = NoProgress
    /\ reply = <<>>
    /\ parsed = NotParsed
    /\ page = <<>>
    /\ fragments = NotSegmented
    /\ cleanup_time = NoCleanup
    /\ coros = <<>>
    /\ locks = <<>>
    /\ running = 0
    /\ active_connections = <<>>
    /\ websockets = [c \in Connections |-> NoSocket]

\* what a step of a connection leaves alone
OtherThanSockets ==
    <<run, reply, parsed, page, fragments, cleanup_time, coros, locks, running>>

\* a client opens a connection for a session: websocket_endpoint is entered
Connect(c, s) ==
    /\ websockets[c].at = "none"
    /\ websockets' = [websockets EXCEPT ![c] = [@ EXCEPT !.at = "connecting", !.session_id = s]]
    /\ UNCHANGED active_connections
    /\ UNCHANGED OtherThanSockets

\* await websocket.accept() ends: it raises, outside the try, when the client
\* has gone; otherwise the connection is registered under its session id
Accept(c) ==
    /\ websockets[c].at = "connecting"
    /\ \/ /\ websockets' = [websockets EXCEPT ![c] = [@ EXCEPT !.at = "closed"]]
          /\ UNCHANGED active_connections
       \/ /\ websockets' = [websockets EXCEPT ![c] =
                [@ EXCEPT !.at = "open", !.seq = Cardinality(Accepted) + 1]]
          /\ active_connections' = SetEntry(active_connections, websockets[c].session_id, c)
    /\ UNCHANGED OtherThanSockets

\* await websocket.receive_text() raises, as it does when the client
\* disconnects: the handler of the endpoint runs
Disconnect(c) ==
    /\ websockets[c].at = "open"
    /\ websockets' = [websockets EXCEPT ![c] = [@ EXCEPT !.at = "closed"]]
    /\ active_connections' = DelEntry(active_connections, websockets[c].session_id)
    /\ UNCHANGED OtherThanSockets

\* the notification connection a send for session s meets
ChannelOf(s) ==
    IF s \notin DOMAIN active_connections THEN {"absent"}
    ELSE IF websockets[active_connections[s]].at = "open" THEN {"open", "broken"}
    ELSE {"broken"}

\* send_progress_update(session_id, ...) of some request
Send(s) ==
    /\ \E channel \in ChannelOf(s) :
          websockets' =
             IF send_progress_update(channel).delivered
             THEN [websockets EXCEPT ![active_connections[s]].received = TRUE]
             ELSE websockets
    /\ UNCHANGED active_connections
    /\ UNCHANGED OtherThanSockets

NextSocket ==
    \/ \E c \in Connections, s \in Sessions : Connect(c, s)
    \/ \E c \in Connections : Accept(c)
    \/ \E c \in Connections : Disconnect(c)
    \/ \E s \in Sessions : Send(s)

SpecSocket == InitSocket /\ [][NextSocket]_vars

(* ------------------------------- claims --------------------------------- *)

\* the step in which task c ended one save_deal_to_db call
SaveStep(c) ==
    /\ c \in DOMAIN cards'
    /\ Len(cards'[c].saved) = Len(cards[c].saved) + 1

\* that call committed
CommitStep(c) == SaveStep(c) /\ cards'[c].saved[Len(cards'[c].saved)].commit

\* the row that call bound
WrittenRow(c) == RowOf(cards'[c].deals[Len(cards'[c].deals)], clock)

SameKeyRows(table, row) == {i \in DOMAIN table : SameKey(table[i], row)}

Keys(table) == {<<table[i].url_hash, table[i].item_name>> : i \in DOMAIN table}

OneRowPerKey == \A i, j \in DOMAIN store : SameKey(store[i], store[j]) => i = j

LastWriteWins ==
    \A c \in DOMAIN cards :
        CommitStep(c) =>
            /\ Cardinality(SameKeyRows(store', WrittenRow(c))) = 1
            /\ \A i \in SameKeyRows(store', WrittenRow(c)) : store'[i] = WrittenRow(c)

\* C1: whatever save_deal_to_db calls have run, of this request or of another
\* writer, the table holds at most one row per (url_hash, item_name), and right
\* after a call commits, the one row of its pair is the row that call wrote.
UpsertUniqueness == []OneRowPerKey /\ [][LastWriteWins]_vars

\* C1 witness: one task committed two deals of the same name and the table
\* holds a single row for that pair.
UpsertTwiceOneRow ==
    \E c \in DOMAIN cards :
        /\ Len(cards[c].saved) = 2 /\ Len(cards[c].deals) = 2
        /\ cards[c].saved[1].commit /\ cards[c].saved[2].commit
        /\ cards[c].deals[1].name = cards[c].deals[2].name
        /\ Cardinality(SameKeyRows(store, RowOf(cards[c].deals[2], 0))) = 1

\* C2: once the batch of a page has been gathered, the deals handed on are the
\* deals of all its fragments, a failed fragment counting for none.
FragmentIsolation ==
    \A c \in DOMAIN cards :
        (cards[c].st \in {"saving", "done"} /\ cards[c].results # <<>>)
            => cards[c].specific_deals = Extend(cards[c].results)

\* the step of the lookup of the request, taken with rows under its fingerprint
LookupStepWithRows ==
    /\ pc = "cachecheck" /\ pc' # "cachecheck"
    /\ RowsUnder(store, get_url_hash(url)) # {}

\* the run ends there: no driver, no task, no write, and the stored rows as
\* its result
HitStep ==
    /\ pc' = "returning"
    /\ driver' = "none"
    /\ cards' = <<>>
    /\ store' = store
    /\ Len(deals') = Cardinality(RowsUnder(store, get_url_hash(url)))
    /\ {deals'[i] : i \in DOMAIN deals'}
          = {DealOfRow(store[i]) : i \in RowsUnder(store, get_url_hash(url))}

PerCardCacheCheck ==
    [][\A c \in DOMAIN cards :
          (c \in DOMAIN cards' /\ cards[c].st = "pending" /\ cards'[c].st = "fetching")
             => RowsUnder(store, get_url_hash(cards'[c].link)) = {}]_vars

\* C5: a committed write for a pair the table already holds leaves the set of
\* pairs and the number of rows under the fingerprint as they were and stamps
\* the row with the time of this write; a write for a new pair adds one row.
IdempotentRerun ==
    [][\A c \in DOMAIN cards :
          CommitStep(c) =>
             LET h == WrittenRow(c).url_hash
             IN  IF SameKeyRows(store, WrittenRow(c)) # {}
                 THEN /\ Keys(store') = Keys(store)
                      /\ Cardinality(RowsUnder(store', h)) = Cardinality(RowsUnder(store, h))
                      /\ \A i \in SameKeyRows(store', WrittenRow(c)) :
                            store'[i].timestamp = clock
                 ELSE Cardinality(RowsUnder(store', h))
                         = Cardinality(RowsUnder(store, h)) + 1]_vars

\* C5 witness: a save replaced a row of an earlier second, and the row now
\* carries the later time.
RewroteEarlierRow ==
    \E c \in DOMAIN cards : \E i \in DOMAIN cards[c].deals :
        /\ cards[c].saved[i].commit
        /\ cards[c].saved[i].replaced >= 0
        /\ \E j \in SameKeyRows(store, RowOf(cards[c].deals[i], 0)) :
              store[j].timestamp > cards[c].saved[i].replaced

\* the deals of the tasks before task c
RECURSIVE DealsBefore(_)
DealsBefore(c) == IF c = 1 THEN 0 ELSE DealsBefore(c - 1) + Len(cards[c - 1].deals)

FatalListingFailure ==
    (pc = "done" /\ loadError # "none") => result.status # "success"

\* the save_deal_to_db calls of task t that committed
RECURSIVE Commits(_)
Commits(saved) ==
    IF saved = <<>> THEN 0
    ELSE (IF Head(saved).commit THEN 1 ELSE 0) + Commits(Tail(saved))

RECURSIVE CommitsOfTasks(_)
CommitsOfTasks(tasks) ==
    IF tasks = <<>> THEN 0 ELSE Commits(Head(tasks).saved) + CommitsOfTasks(Tail(tasks))

\* C8: the count a finished request reports is the number of deals the run
\* committed to the table.
NoFalseTotals ==
    (pc = "done" /\ result.status = "success") => result.found = CommitsOfTasks(cards)

\* C9: every record that reaches the save loop is normalized without an
\* exception and is written, with its price as a number, 0.0 when the price
\* is absent or not a number.
PriceNormalizationNeverFails ==
    \A c \in DOMAIN cards : \A i \in DOMAIN cards[c].deals :
        LET deal_info == cards[c].deals[i]
            price == Float(Get(deal_info, "price", Num(0)))
        IN  /\ SaveCommits(deal_info, TRUE)
            /\ RowOf(deal_info, clock).price = Num(IF price.ok THEN price.n ELSE 0)

\* C10: a task whose page shows no promo tag makes no model call, raises
\* nothing, returns no deal and writes no row.
SegmenterCostAvoidance ==
    \A c \in DOMAIN cards :
        cards[c].promo_tags = 0 =>
            /\ cards[c].calls = 0
            /\ cards[c].st = "done" /\ cards[c].failed = ""
            /\ cards[c].results = <<>>
            /\ cards[c].deals = <<>> /\ cards[c].saved = <<>>

\* C10 witness: a fetched page without promo tags, in a finished request.
PageWithoutPromoTags ==
    /\ pc = "done"
    /\ \E c \in DOMAIN cards :
          cards[c].promo_tags = 0 /\ cards[c].fetches = 1 /\ cards[c].calls = 0

\* every row of the table is still there after the step, or a row of its key
RowsKept == \A i \in DOMAIN store : \E j \in DOMAIN store' : SameKey(store'[j], store[i])

\* every row of a table of the earlier schema is still there after the step
LegacyKept == \A i \in DOMAIN legacy : \E j \in DOMAIN legacy' : legacy'[j] = legacy[i]

\* C11 as stated: no step of the pipeline (the constructor with setup_database,
\* the lookup, a save, the run as a whole) removes a row, except for the row
\* whose key a save overwrites.
PipelineNeverDeletes == [][RowsKept /\ LegacyKept]_vars

\* C11 amended: the same for every row of the table with the url_hash column;
\* rows of a table without that column go only when a constructor runs
\* setup_database, which drops the table.
PipelineKeepsKeyedRows ==
    [][/\ RowsKept
       /\ ~LegacyKept => (pc \in {"idle", "done"} /\ legacy' = setup_database(legacy))]_vars

\* C11 witness: a save of the request replaced the row of its key while the
\* table held a row of another key, and both keys are there at the end.
OverwroteBesideOtherRow ==
    /\ pc = "done" /\ Cardinality(Keys(store)) >= 2
    /\ \E c \in DOMAIN cards : \E i \in DOMAIN cards[c].saved :
          cards[c].saved[i].commit /\ cards[c].saved[i].replaced >= 0

\* the coroutines between opening a connection and the end of its commit
Writing == {k \in DOMAIN coros : coros[k].at \in {"execute", "commit"}}

\* every row of the table is the whole row of one deal of a task
WholeRows ==
    \A i \in DOMAIN store : \E k \in DOMAIN coros : \E d \in DOMAIN coros[k].given :
        store[i] = RowOf(coros[k].given[d], store[i].timestamp)

\* the table changes only in the commit of the one writing coroutine, by
\* its whole row
CommitIsTheOnlyWrite ==
    store' # store =>
        \E k \in DOMAIN coros :
            /\ Writing = {k} /\ coros[k].at = "commit"
            /\ store' = InsertOrReplace(store, coros[k].row)

\* C12: of the save_deal_to_db calls of all tasks and all instances on the
\* event loop, at most one is between opening its connection and committing;
\* the table holds whole rows only and changes by one committed row at a time.
SingleSerializationPoint ==
    /\ [](Cardinality(Writing) <= 1 /\ WholeRows)
    /\ [][CommitIsTheOnlyWrite]_vars

\* C12 witness: a task of one instance is about to commit while a task of the
\* other instance stands between two of its saves, the first one committed.
SavesInterleaveAtCallLevel ==
    \E k, j \in DOMAIN coros :
        /\ coros[k].inst # coros[j].inst
        /\ coros[k].at = "commit"
        /\ coros[j].at = "acquire" /\ coros[j].saved # <<>> /\ coros[j].saved[1].commit
        /\ store # <<>>

\* the step in which a save_deal_to_db call of coroutine k ends in its handler
FailedCall(k) ==
    /\ Len(coros'[k].saved) = Len(coros[k].saved) + 1
    /\ ~coros'[k].saved[Len(coros'[k].saved)].commit

\* C14: a save_deal_to_db call that fails ends in its handler: the table is
\* as it was when the call began, the lock is free once the call is over, the
\* task goes on to its next deal, and every deal whose own call committed,
\* before or after the failure, has its row in the table.
PersistenceErrorIsolation ==
    /\ [][\A k \in DOMAIN coros :
            FailedCall(k) => (store' = store /\ store = coros[k].entry
                              /\ coros'[k].at = "release")]_vars
    /\ [](\A k \in DOMAIN coros :
            /\ coros[k].at \in {"acquire", "done"} =>
                  /\ locks[coros[k].inst] # k
                  /\ Len(coros[k].saved) + Len(coros[k].todo) = Len(coros[k].given)
            /\ coros[k].at = "done" => coros[k].todo = <<>>
            /\ \A i \in DOMAIN coros[k].saved :
                  coros[k].saved[i].commit =>
                     SameKeyRows(store, RowOf(coros[k].given[i], 0)) # {})

\* C14 witness: one task failed on its first deal and committed the second,
\* another committed its first and failed on the second; the locks are free.
FailedBetweenCommits ==
    /\ \A i \in DOMAIN locks : locks[i] = 0
    /\ \E k, j \in DOMAIN coros :
          /\ coros[k].at = "done" /\ Len(coros[k].saved) = 2
          /\ ~coros[k].saved[1].commit /\ coros[k].saved[2].commit
          /\ coros[j].at = "done" /\ Len(coros[j].saved) = 2
          /\ coros[j].saved[1].commit /\ ~coros[j].saved[2].commit
          /\ SameKeyRows(store, RowOf(coros[k].given[2], 0)) # {}

\* the deal_info task c hands to its next save_deal_to_db call
NextDealInfo(c) ==
    DealInfo(BasicInfo(cards[c].card),
             cards[c].specific_deals[Len(cards[c].saved) + 1], cards[c].link)

\* C13: a save_deal_to_db call of a task starts only after every extraction
\* call of its page has returned and its deals were handed on, and what it
\* writes is the deal merged with the metadata of the card; a task that has
\* saved a deal has no extraction call still out.
PerFragmentOrdering ==
    /\ [][\A c \in DOMAIN cards :
            SaveStep(c) =>
               /\ cards[c].st = "saving"
               /\ \A f \in DOMAIN cards[c].results : cards[c].results[f].st = "returned"
               /\ cards[c].specific_deals = Extend(cards[c].results)
               /\ cards'[c].deals = Append(cards[c].deals, NextDealInfo(c))
               /\ CommitStep(c) =>
                     \E i \in DOMAIN store' : store'[i] = RowOf(NextDealInfo(c), clock)]_vars
    /\ [](\A c \in DOMAIN cards :
            cards[c].saved # <<>> =>
               \A f \in DOMAIN cards[c].results : cards[c].results[f].st = "returned")

\* C13 witness: a page of two fragments, both extractions returned, and the
\* deals of both merged and committed.
BothFragmentsSaved ==
    \E c \in DOMAIN cards :
        /\ Len(cards[c].results) = 2
        /\ cards[c].results[1].deals # <<>> /\ cards[c].results[2].deals # <<>>
        /\ Len(cards[c].saved) = 2 /\ Len(cards[c].deals) = 2
        /\ cards[c].saved[1].commit /\ cards[c].saved[2].commit
        /\ cards[c].deals[1].restaurant = BasicInfo(cards[c].card).restaurant

\* the places of the json fence in a response, and of any fence: the json
\* fence begins with the three backquotes of the plain one
JsonFenceAt(r) == {i \in DOMAIN r : r[i] = JsonFence}
FenceAt(r) == {i \in DOMAIN r : r[i] \in {Fence, JsonFence}}

Least(S) == CHOOSE i \in S : \A j \in S : i <= j

\* the content between the first json fence and the next fence after it, or
\* the end of the response
Fenced(r) ==
    LET first == Least(JsonFenceAt(r))
        after == {j \in FenceAt(r) : j > first}
    IN  SubSeq(r, first + 1, IF after = {} THEN Len(r) ELSE Least(after) - 1)

\* C15: what is parsed as JSON is the content between the first json fence
\* and the next fence after it (the end of the response when none follows)
\* if the response has a json fence, and the whole trimmed response if not.
UnwrappingRule ==
    parsed.done =>
        IF JsonFenceAt(reply) # {}
        THEN /\ parsed.text = Strip(Fenced(reply))
             /\ parsed.ok = Loads(Fenced(reply)).ok
             /\ parsed.value = Loads(Fenced(reply)).value
        ELSE /\ parsed.text = Strip(reply)
             /\ parsed.ok = Loads(reply).ok
             /\ parsed.value = Loads(reply).value

\* C15 witness: a response with prose before the json fence and a closing
\* fence with more text after it, parsed to the fenced document.
ParsedFencedDocument ==
    /\ parsed.done /\ parsed.ok
    /\ Len(reply) = 4
    /\ reply[1] = "Here you go:" /\ reply[2] = JsonFence /\ reply[4] = Fence

\* the other branch of the rule: a plain fence around the document is not
\* unwrapped, the response is parsed whole and is no JSON
PlainFenceNotUnwrapped ==
    /\ parsed.done /\ ~parsed.ok
    /\ reply = <<Fence, "{deals:[Burger]}", Fence>>

\* the save_deal_to_db calls the tasks have made
RECURSIVE CallsOfTasks(_)
CallsOfTasks(tasks) ==
    IF tasks = <<>> THEN 0 ELSE Len(Head(tasks).saved) + CallsOfTasks(Tail(tasks))

\* C16: every progress fraction sent lies in [0, 1], the one sent after a
\* deal never exceeds 0.9 however many deals were found, and whatever the
\* connection does (absent, taking the message, raising), no task and no
\* request fails in a send: every save call is counted and every request
\* that returns does so as a success.
ProgressChannel ==
    /\ progress.progress \in 0..1000
    /\ progress \in {NoProgress, SettingUp, Scanning, Completed}
                        \cup {FoundDeal(n) : n \in 1..MaxDeals}
    /\ \A n \in 0..MaxDeals :
          /\ PerDealProgress(n) \in 100..900
          /\ n >= 20 => PerDealProgress(n) = 900
    /\ \A c \in DOMAIN cards : cards[c].failed # "notify"
    /\ result # ServerError
    /\ total = CallsOfTasks(cards)
    /\ pc = "done" => result.status \in {"success", "SystemExit"}

\* C16 witness: a request that sent an update after a committed deal and
\* ended with the last update, the found deal in its result.
UpdatesSentAlongTheRun ==
    /\ pc = "done" /\ result.status = "success" /\ result.found >= 1
    /\ progress = Completed
    /\ Len(deals) >= 1
    /\ \E c \in DOMAIN cards : cards[c].saved # <<>> /\ cards[c].saved[1].commit

\* deal_info is the metadata of the card overridden by the extracted record,
\* with the link of the card as its url
MergedFrom(deal_info, basic_info, deal, link) ==
    /\ DOMAIN deal_info = DOMAIN basic_info \cup DOMAIN deal \cup {"url"}
    /\ \A k \in DOMAIN deal \ {"url"} : deal_info[k] = deal[k]
    /\ \A k \in DOMAIN basic_info \ (DOMAIN deal \cup {"url"}) : deal_info[k] = basic_info[k]
    /\ deal_info.url = Url(link)

\* C17: every deal of a task is the metadata of its card overridden by each
\* key of the extracted record, its url is the detail link of the card
\* whatever url the record carries, and the row a committed save writes has
\* the values of the record where both name a field.
MergePrecedence ==
    /\ [](\A c \in DOMAIN cards : \A i \in DOMAIN cards[c].deals :
            MergedFrom(cards[c].deals[i], BasicInfo(cards[c].card),
                       cards[c].specific_deals[i], cards[c].link))
    /\ [][\A c \in DOMAIN cards :
            CommitStep(c) =>
               LET deal == cards[c].specific_deals[Len(cards'[c].saved)]
                   basic_info == BasicInfo(cards[c].card)
               IN  \E i \in DOMAIN store' :
                      /\ store'[i].url = Url(cards[c].link)
                      /\ store'[i].url_hash = get_url_hash(cards[c].link)
                      /\ store'[i].item_name = deal.name
                      /\ store'[i].promotion_type = Get(deal, "promotion", basic_info.promotion)
                      /\ store'[i].restaurant = Get(deal, "restaurant", basic_info.restaurant)
                      /\ store'[i].delivery_fee = Get(deal, "delivery_fee", basic_info.delivery_fee)]_vars

\* C17 witness: a committed deal whose record names a restaurant, a promotion
\* and a url of its own; the row has the restaurant and the promotion of the
\* record and the link of the card.
RecordOverridesCard ==
    \E c \in DOMAIN cards : \E i \in DOMAIN cards[c].deals :
        /\ {"restaurant", "promotion", "url"} \subseteq DOMAIN cards[c].specific_deals[i]
        /\ cards[c].specific_deals[i].restaurant # BasicInfo(cards[c].card).restaurant
        /\ cards[c].specific_deals[i].url # Url(cards[c].link)
        /\ cards[c].saved[i].commit
        /\ \E j \in DOMAIN store :
              /\ store[j].restaurant = cards[c].specific_deals[i].restaurant
              /\ store[j].promotion_type = cards[c].specific_deals[i].promotion
              /\ store[j].url = Url(cards[c].link)

\* the depth of an element, and its ancestor n parent steps up
Depth(element) == Len(element) - 1
Ancestor(element, n) == SubSeq(element, 1, Len(element) - n)

\* element e lies in the subtree of element a
Within(e, a) == Len(a) <= Len(e) /\ SubSeq(e, 1, Len(a)) = a

\* one fragment per promo tag, in the order of the tags, each the ancestor
\* min(PromoDepth, depth) parent steps above its tag
OneFragmentPerTag ==
    /\ Len(fragments.items) = Len(page)
    /\ \A i \in DOMAIN page :
          fragments.items[i] = Ancestor(page[i], Min(PromoDepth, Depth(page[i])))

\* C18 as stated: k promo tags give k fragments in document order, fragment i
\* the ancestor min(9, depth) steps above tag i, and the fragments are
\* different subtrees that hold one promo tag each.
SegmenterAncestorWalk ==
    fragments.done =>
        /\ OneFragmentPerTag
        /\ \A i, j \in DOMAIN page : i # j => fragments.items[i] # fragments.items[j]
        /\ \A i \in DOMAIN page :
              {j \in DOMAIN page : Within(page[j], fragments.items[i])} = {i}

\* C18 amended: k fragments in document order, fragment i the ancestor
\* min(9, depth) steps above tag i and holding tag i; two tags give one and
\* the same subtree exactly when they have that ancestor in common, and then
\* the fragment holds both.
SegmenterAncestorWalkShared ==
    fragments.done =>
        /\ OneFragmentPerTag
        /\ \A i \in DOMAIN page : Within(page[i], fragments.items[i])
        /\ \A i, j \in DOMAIN page :
              fragments.items[i] = fragments.items[j]
                 <=> Ancestor(page[i], Min(PromoDepth, Depth(page[i])))
                       = Ancestor(page[j], Min(PromoDepth, Depth(page[j])))

\* C18 witness: a page of two promo tags, the first less than nine levels
\* deep, whose fragment is the whole document, the second deep in its item.
ShallowAndDeepTag ==
    /\ fragments.done /\ Len(page) = 2
    /\ Depth(page[1]) < PromoDepth /\ fragments.items[1] = <<"[document]">>
    /\ Depth(page[2]) > PromoDepth /\ Len(fragments.items[2]) > 1

\* a reading that raised nothing
ReadingTaken ==
    /\ pc = "scrolling"
    /\ loadError' = loadError
    /\ <<pc', last_height'>> # <<pc, last_height>>

\* C19: a reading that raises nothing ends the scroll loop exactly when it
\* equals the reading before it, and the store cards are enumerated next;
\* a different reading keeps the run in the loop, whatever the count of
\* readings taken. If the height of the page changes no more from some point
\* on, the loop is left.
ScrollLoopTermination ==
    /\ [][ReadingTaken =>
            /\ (height = last_height) <=> (pc' # "scrolling")
            /\ pc' # "scrolling" => pc' \in {"cards", "returning"}
            /\ pc' = "scrolling" => last_height' = height]_vars
    /\ [][(pc = "scrolling" /\ pc' # "scrolling" /\ loadError' = loadError)
            => height = last_height]_vars
    /\ (<>[][height' = height]_vars) => []<>(pc # "scrolling")

\* C19 witness: the loop took a reading that differed from the one before, is
\* still scrolling, and the page has changed again since.
StillScrolling ==
    /\ pc = "scrolling"
    /\ last_height # height
    /\ last_height = MaxHeight

\* C20: a cleanup that does not fail deletes the rows written more than
\* thirty minutes before it and no other row; a row written less than
\* thirty minutes before it is in the table afterwards.
JanitorAgeRule ==
    [][(cleanup_time'.done /\ cleanup_time'.ok) =>
          \A i \in DOMAIN store :
              (\E j \in DOMAIN store' : store'[j] = store[i])
                 <=> ~(cleanup_time'.utc - store[i].timestamp > ThirtyMinutes)]_vars

\* the rows of the table that carry the link of task c
RowsOfTask(c) == {i \in DOMAIN store : store[i].url = Url(cards[c].link)}

\* C21: when a run has answered with a hash, every row the run committed is
\* among the rows get_deals_by_hash returns for that hash, and a lookup of the
\* target right after a run that committed a deal finds existing deals.
KeyConsistency ==
    (pc = "done" /\ result.status = "success" /\ CommitsOfTasks(cards) > 0) =>
        /\ \A c \in DOMAIN cards :
              Commits(cards[c].saved) > 0 =>
                 /\ RowsOfTask(c) # {}
                 /\ RowsOfTask(c) \subseteq get_deals_by_hash(store, result.hash).rows
        /\ <<>> \notin get_existing_deals(store, url, TRUE)

\* a step in which a browser is started
Acquires == driver # "up" /\ driver' = "up"

\* C22: a run starts a browser at most once, and only after its lookup
\* returned no deals; once the run has ended, by an answer, a cache hit or
\* an exception, no browser is held: the one it started was quit.
DriverRelease ==
    /\ [](pc = "done" => driver \in {"none", "quit"})
    /\ [](cache = "hit" => driver = "none")
    /\ [][Acquires => (driver = "none" /\ pc = "loading" /\ cache # "hit")]_vars
    /\ [][driver' = "quit" => (driver \in {"up", "quit"} /\ pc' = "done")]_vars

\* C22 witness: a run that started a browser failed on the listing and has
\* ended with the browser quit.
FailedRunReleasedDriver ==
    /\ pc = "done"
    /\ driver = "quit"
    /\ loadError \in {"get", "scroll", "cards"}

\* a step of a request that is under way
InRequest == pc \notin {"idle", "done"}

\* C23: within one request the progress values sent never decrease, from the
\* first update to the 1.0 of "Completed!"; "Completed!" is the last update
\* of the request and is sent only once get_restaurant_deals has returned.
MonotonicProgress ==
    /\ [][InRequest => progress'.progress >= progress.progress]_vars
    /\ [][(InRequest /\ progress' = Completed) => (pc = "returning" /\ pc' = "done")]_vars
    /\ [](progress = Completed => pc = "done")

\* the (source URL, item name) of an entry of the deal list
EntryKey(deal_info) ==
    <<Get(deal_info, "url", Url(<<>>)), Get(deal_info, "name", Str(""))>>

\* the keys of the committed save calls of task c
KeysWrittenBy(c) ==
    { EntryKey(DealInfo(BasicInfo(cards[c].card), cards[c].specific_deals[i], cards[c].link)) :
        i \in {k \in DOMAIN cards[c].saved : cards[c].saved[k].commit} }

\* C24: after a run that missed the cache, no two entries of the aggregated
\* deal list have the same (source URL, item name), and the list is as long as
\* the number of distinct rows the run wrote.
ResultListMatchesStore ==
    (pc = "done" /\ cache = "miss" /\ result.status = "success") =>
        /\ \A i, j \in DOMAIN deals : EntryKey(deals[i]) = EntryKey(deals[j]) => i = j
        /\ Len(deals) = Cardinality(UNION {KeysWrittenBy(c) : c \in DOMAIN cards})

\* the accepted connections of session s that are open
OpenSockets(s) ==
    {c \in Connections : websockets[c].at = "open" /\ websockets[c].session_id = s}

\* the connection of S that was accepted last
Newest(S) == CHOOSE c \in S : \A d \in S : websockets[d].seq <= websockets[c].seq

\* C25: whenever a session has an accepted connection that is open, the
\* registry holds, under the session id, the open connection that was
\* accepted last; the disconnect of an older one does not take that away.
WebSocketRegistry ==
    \A s \in Sessions :
        OpenSockets(s) # {} =>
            /\ s \in DOMAIN active_connections
            /\ active_connections[s] = Newest(OpenSockets(s))

====
